---- MODULE Spec2Model ----
(***************************************************************************)
(* A model of src/app.py, the "Configuration Editor": a Streamlit script   *)
(* that shows a table of a SQL warehouse in a data editor and writes the   *)
(* edited rows back with one MERGE statement.                              *)
(*                                                                         *)
(* One table `users` is modelled, with the columns                         *)
(*     id (int64, the primary key), name (object/text),                    *)
(*     CreatedAt, UpdatedAt (timestamps).                                  *)
(* Every browser session runs the whole script on each interaction; one    *)
(* script run is one action of the model.  The warehouse connection is     *)
(* cached process-wide (st.cache_resource), so all sessions share the      *)
(* temporary views and the target table.                                   *)
(***************************************************************************)
EXTENDS Integers, Sequences, FiniteSets, TLC

\* ------------------------------------------------------------------ bounds
\* Primary-key values are 1..MaxKey.
MaxKey == 2
\* The clock (whole seconds) runs from 1 to MaxClock.
MaxClock == 2
\* The users make at most MaxEdits edits in the data editor, all sessions together.
MaxEdits == 2
\* format_value is tried on the integers 0..MaxInt and on the texts of at most
\* MaxTextLen characters.
MaxInt == 12
MaxTextLen == 3
\* read_table is tried on frames of at most MaxFrame rows.
MaxFrame == 2

Keys == 1..MaxKey
Sessions == {"A", "B"}

\* ------------------------------------------------------------------ values
\* A text is a sequence of one-character strings.
Quote == "'"
Names == {<<"A">>, <<"O", Quote, "B">>}

\* Scalars are tagged, so that a null, a text, a number and a boolean can
\* stand in the same column.
NullV == [t |-> "null"]
TextV(s) == [t |-> "text", v |-> s]
IntV(n) == [t |-> "int", v |-> n]
BoolV(b) == [t |-> "bool", v |-> b]
\* A float with one fractional digit, i.f
FloatV(i, f) == [t |-> "float", v |-> <<i, f>>]

\* The missing timestamp of a row that the editor added (pandas NaT).
NaT == 0 - 1

\* ------------------------------------------------------------------ texts
Digits == <<"0", "1", "2", "3", "4", "5", "6", "7", "8", "9">>

\* Python's str() of a non-negative int
RECURSIVE StrInt(_)
StrInt(n) ==
    IF n < 10 THEN <<Digits[n + 1]>>
    ELSE StrInt(n \div 10) \o <<Digits[(n % 10) + 1]>>

\* Python's str() of a scalar: True/False, 12, 1.5, the text itself
Str(value) ==
    CASE value.t = "bool" ->
            IF value.v THEN <<"T", "r", "u", "e">> ELSE <<"F", "a", "l", "s", "e">>
      [] value.t = "int" -> StrInt(value.v)
      [] value.t = "float" -> StrInt(value.v[1]) \o <<".">> \o StrInt(value.v[2])
      [] value.t = "text" -> value.v

\* str.upper() on the letters that occur in True and False
UpperChar(c) ==
    CASE c = "r" -> "R" [] c = "u" -> "U" [] c = "e" -> "E"
      [] c = "a" -> "A" [] c = "l" -> "L" [] c = "s" -> "S"
      [] OTHER -> c

Upper(s) == [i \in 1..Len(s) |-> UpperChar(s[i])]

\* s.replace("'", "''")
RECURSIVE DoubleQuotes(_)
DoubleQuotes(s) ==
    IF s = <<>> THEN <<>>
    ELSE (IF Head(s) = Quote THEN <<Quote, Quote>> ELSE <<Head(s)>>)
         \o DoubleQuotes(Tail(s))

Quoted(s) == <<Quote>> \o DoubleQuotes(s) \o <<Quote>>

NumericDtypesUnquoted == {"int64", "float64"}

\* format_value(value, dtype): the SQL literal of a scalar
format_value(value, dtype) ==
    IF value.t = "null" THEN <<"N", "U", "L", "L">>
    ELSE IF dtype = "bool" THEN Upper(Str(value))
    ELSE IF dtype = "object" THEN Quoted(Str(value))
    ELSE IF dtype \in NumericDtypesUnquoted THEN Str(value)
    ELSE Quoted(Str(value))

\* ---------------------------------------------- the warehouse reads a literal
\* The body of a quoted literal with the doubled quotes read back as one.
RECURSIVE Undouble(_)
Undouble(s) ==
    IF s = <<>> THEN <<>>
    ELSE IF Len(s) >= 2 /\ s[1] = Quote /\ s[2] = Quote
         THEN <<Quote>> \o Undouble(SubSeq(s, 3, Len(s)))
    ELSE <<Head(s)>> \o Undouble(Tail(s))

DigitValue(c) == CHOOSE d \in 0..9 : Digits[d + 1] = c

RECURSIVE ParseInt(_)
ParseInt(s) ==
    IF Len(s) = 1 THEN DigitValue(s[1])
    ELSE 10 * ParseInt(SubSeq(s, 1, Len(s) - 1)) + DigitValue(s[Len(s)])

\* The value a literal of a VALUES clause denotes.
ParseLiteral(lit) ==
    IF lit = <<"N", "U", "L", "L">> THEN NullV
    ELSE IF lit = <<"T", "R", "U", "E">> THEN BoolV(TRUE)
    ELSE IF lit = <<"F", "A", "L", "S", "E">> THEN BoolV(FALSE)
    ELSE IF Head(lit) = Quote THEN TextV(Undouble(SubSeq(lit, 2, Len(lit) - 1)))
    ELSE IntV(ParseInt(lit))

\* ------------------------------------------------------------------ state
VARIABLES
    store,          \* the rows of the target table in the warehouse
    now,            \* the clock, in whole seconds
    temp_views,     \* the temporary views that exist on the cached connection
    session_state,  \* per session: has_data (data_key is set), data, changes
    notice,         \* per session: what its last script run reported
    source_df,      \* the tagged change rows the last Save built
    edits,          \* how many edits the users have made
    call            \* the arguments of one call of a function taken alone,
                    \* and its result (used by the specifications of
                    \* save_changes, format_value and read_table below)

vars == <<store, now, temp_views, session_state, notice, source_df, edits, call>>

TableName == <<"main", "config", "users">>

\* A row of the table, as the warehouse holds it and as a data frame holds it.
Row(id, name, created, updated) ==
    [id |-> id, name |-> name, CreatedAt |-> created, UpdatedAt |-> updated]

\* The table before any session starts.
InitStore == {Row(1, TextV(<<"A">>), 0, 0)}

\* ------------------------------------------------------------ read_table
\* SELECT * has no ORDER BY: the rows come in some order.
ReadTable(rows) ==
    {df \in [1..Cardinality(rows) -> rows] :
        \A i, j \in 1..Cardinality(rows) : df[i] = df[j] => i = j}

\* ------------------------------------------------------- st.data_editor
RemoveAt(df, i) == SubSeq(df, 1, i - 1) \o SubSeq(df, i + 1, Len(df))

KeyTuples(df) == {<<df[i].id>> : i \in 1..Len(df)}

CellEdits(df) ==
    {[df EXCEPT ![i].name = TextV(n)] :
        i \in 1..Len(df), n \in Names} \ {df}

AddedRows(df) ==
    {Append(df, Row(k, TextV(n), NaT, NaT)) :
        k \in {k \in Keys : <<k>> \notin KeyTuples(df)}, n \in Names}

RemovedRows(df) == {RemoveAt(df, i) : i \in 1..Len(df)}

\* What the editor returns for the frame df after one edit of the user:
\* a changed name, a row added at the end, or a row removed
\* (num_rows="dynamic"; CreatedAt and UpdatedAt are disabled columns).
\* The users enter whole rows and no key twice: a frame has distinct,
\* non-null keys.
EditorResults(df) == CellEdits(df) \cup AddedRows(df) \cup RemovedRows(df)

\* --------------------------------------------------- handle_table_edits
\* Lines 182-185: the frame held in session_state after the change check.
HeldData(held, edited_df) == IF edited_df # held THEN edited_df ELSE held

\* Lines 192-194
DeletedKeys(held, edited_df) == KeyTuples(held) \ KeyTuples(edited_df)

\* Lines 197-200: the held rows with a deleted key, every non-key column None
DeleteRows(held, deleted_keys) ==
    LET hit == SelectSeq(held, LAMBDA r : <<r.id>> \in deleted_keys)
    IN  [i \in 1..Len(hit) |-> Row(hit[i].id, NullV, NaT, NaT)]

Assign(df, flag) ==
    [i \in 1..Len(df) |->
        [id |-> df[i].id, name |-> df[i].name, CreatedAt |-> df[i].CreatedAt,
         UpdatedAt |-> df[i].UpdatedAt, is_delete |-> flag]]

\* Lines 203-206
SourceDf(held, edited_df) ==
    Assign(edited_df, FALSE)
    \o Assign(DeleteRows(held, DeletedKeys(held, edited_df)), TRUE)

\* ---------------------------------------------------------- save_changes
\* Lines 91-92: the timestamp columns are dropped
DfForView(df) ==
    [i \in 1..Len(df) |->
        [id |-> df[i].id, name |-> df[i].name, is_delete |-> df[i].is_delete]]

\* Line 93
TempViewName(table_name, t) == <<"temp", table_name, t>>

\* Lines 95-99: one tuple of literals per row
ValuesList(view_df) ==
    [i \in 1..Len(view_df) |->
        [id |-> format_value(IntV(view_df[i].id), "int64"),
         name |-> format_value(view_df[i].name, "object"),
         is_delete |-> format_value(BoolV(view_df[i].is_delete), "bool")]]

\* Lines 100-107: the rows of the temporary view
ViewRows(values_list) ==
    {[id |-> ParseLiteral(values_list[i].id).v,
      name |-> ParseLiteral(values_list[i].name),
      is_delete |-> ParseLiteral(values_list[i].is_delete).v] :
        i \in 1..Len(values_list)}

\* Line 110: t.id = s.id
OnClause(t, s) == t.id = s.id

\* An UPDATE SET that leaves the name of the target row alone.
UpdateSetKeepsName(t, s, ts) == Row(t.id, t.name, t.CreatedAt, ts)

\* Lines 112-115: every column but the key and the timestamps, and UpdatedAt
UpdateSet(t, s, ts) == Row(t.id, s.name, t.CreatedAt, ts)

\* An INSERT that takes CreatedAt from the source, where a new row has none.
InsertValuesSourceCreatedAt(s, ts) == Row(s.id, s.name, NaT, ts)

\* Lines 116-121
InsertValues(s, ts) == Row(s.id, s.name, ts, ts)

\* The MERGE without its WHEN MATCHED ... THEN DELETE clause: a matched row
\* tagged for deletion stays.
MergeWithoutDelete(target, src, ts) ==
    {t \in target : \A s \in src : ~OnClause(t, s) \/ s.is_delete}
    \cup {UpdateSet(t, s, ts) : <<t, s>> \in
            {p \in target \X src : OnClause(p[1], p[2]) /\ ~p[2].is_delete}}
    \cup {InsertValues(s, ts) : s \in
            {s \in src : ~s.is_delete /\ \A t \in target : ~OnClause(t, s)}}

\* Lines 124-131: the MERGE
Merge(target, src, ts) ==
    {t \in target : \A s \in src : ~OnClause(t, s)}
    \cup {UpdateSet(t, s, ts) : <<t, s>> \in
            {p \in target \X src : OnClause(p[1], p[2]) /\ ~p[2].is_delete}}
    \cup {InsertValues(s, ts) : s \in
            {s \in src : ~s.is_delete /\ \A t \in target : ~OnClause(t, s)}}

Faults == {"none", "view", "merge"}

\* save_changes(table_name, source_df, ...): what it leaves behind.
\* CREATE TEMPORARY VIEW raises when there is no row (an empty VALUES clause
\* does not parse), when the name is taken, or when the statement fails
\* (fault "view"); the MERGE raises on fault "merge"; either is caught at
\* line 136 and reported.
save_changes(target, views, source, t, fault) ==
    LET temp_view == TempViewName(TableName, t)
        src == ViewRows(ValuesList(DfForView(source)))
    IN  IF Len(source) = 0 \/ temp_view \in views \/ fault = "view"
        THEN [store |-> target, temp_views |-> views, notice |-> "error"]
        ELSE IF fault = "merge"
        THEN [store |-> target, temp_views |-> views \cup {temp_view},
              notice |-> "error"]
        ELSE [store |-> Merge(target, src, t),
              temp_views |-> views \cup {temp_view}, notice |-> "saved"]

\* ------------------------------------------------------- one script run
\* Lines 227-255 with handle_table_edits, for session s.  original_df is
\* what read_table returned, edited_df what the data editor returned,
\* edited whether the user changed the editor (on_change fires), clicked
\* whether the run was started by the Save button.
ScriptRun(s, original_df, edited, edited_df, clicked, fault) ==
    LET ss == session_state[s]
        held0 == IF ss.has_data THEN ss.data ELSE original_df
        changes0 == IF ss.has_data THEN (ss.changes \/ edited) ELSE FALSE
        data_changed == edited_df # held0
        held == HeldData(held0, edited_df)
        changes1 == changes0 \/ data_changed
        saving == changes1 /\ clicked
        source == SourceDf(held, edited_df)
        out == save_changes(store, temp_views, source, now, fault)
    IN  /\ session_state' = [session_state EXCEPT
                ![s] = [has_data |-> TRUE, data |-> held,
                        changes |-> IF saving THEN FALSE ELSE changes1]]
        /\ IF saving
           THEN /\ store' = out.store
                /\ temp_views' = out.temp_views
                /\ notice' = [notice EXCEPT ![s] = out.notice]
                /\ source_df' = source
           ELSE /\ notice' = [notice EXCEPT ![s] = "none"]
                /\ UNCHANGED <<store, temp_views, source_df>>
        /\ edits' = IF edited THEN edits + 1 ELSE edits
        /\ UNCHANGED <<now, call>>

\* Line 251 in a run of a session that holds data already: the table is read
\* again and the frame is passed on, but line 167 no longer looks at it.
Reread == CHOOSE df \in ReadTable(store) : TRUE

\* A session opens the page: the first run loads the table.
Open(s) ==
    /\ ~session_state[s].has_data
    /\ \E original_df \in ReadTable(store) :
          ScriptRun(s, original_df, FALSE, original_df, FALSE, "none")

\* The user edits the grid: the run sees the edited frame.
Edit(s) ==
    /\ session_state[s].has_data
    /\ edits < MaxEdits
    /\ \E edited_df \in EditorResults(session_state[s].data) :
          ScriptRun(s, Reread, TRUE, edited_df, FALSE, "none")

\* A run with nothing new from the user (another widget, a rerun).
Rerun(s) ==
    /\ session_state[s].has_data
    /\ ScriptRun(s, Reread, FALSE, session_state[s].data, FALSE, "none")

\* The user clicks Save Changes, which the last run showed.  The click brings
\* no new edit: the editor, which line 185 has fed its own result, returns
\* the frame it is given.  (Whatever it returned, line 185 would store it
\* before line 192 reads session_state[data_key].)
SaveClick(s) ==
    /\ session_state[s].has_data
    /\ session_state[s].changes
    /\ \E fault \in Faults :
          ScriptRun(s, Reread, FALSE, session_state[s].data, TRUE, fault)

\* A second passes.
Tick ==
    /\ now < MaxClock
    /\ now' = now + 1
    /\ UNCHANGED <<store, temp_views, session_state, notice, source_df, edits, call>>

NoCall == [op |-> "none"]

NoSessions ==
    [s \in Sessions |-> [has_data |-> FALSE, data |-> <<>>, changes |-> FALSE]]

Init ==
    /\ store = InitStore
    /\ now = 1
    /\ temp_views = {}
    /\ session_state = NoSessions
    /\ notice = [s \in Sessions |-> "none"]
    /\ source_df = <<>>
    /\ edits = 0
    /\ call = NoCall

Next ==
    \/ Tick
    \/ \E s \in Sessions : Open(s)
    \/ \E s \in Sessions : Edit(s)
    \/ \E s \in Sessions : Rerun(s)
    \/ \E s \in Sessions : SaveClick(s)

Spec == Init /\ [][Next]_vars

\* ------------------------------------------- save_changes taken alone
\* The tables and the tagged change rows save_changes is called with.
StoredRows == {Row(k, TextV(n), 0, 0) : k \in Keys, n \in Names}

DistinctKeys(rows) == \A r1, r2 \in rows : r1.id = r2.id => r1 = r2

Tables == {T \in SUBSET StoredRows : DistinctKeys(T)}

ChangeRows ==
    {[id |-> k, name |-> nm, CreatedAt |-> ts, UpdatedAt |-> ts,
      is_delete |-> FALSE] :
        k \in Keys, nm \in {TextV(n) : n \in Names} \cup {NullV}, ts \in {NaT, 0}}
    \cup {[id |-> k, name |-> NullV, CreatedAt |-> NaT, UpdatedAt |-> NaT,
           is_delete |-> TRUE] : k \in Keys}

ChangeSets ==
    {C \in UNION {[1..n -> ChangeRows] : n \in 0..MaxKey} :
        \A i, j \in 1..Len(C) : C[i].id = C[j].id => i = j}

InitPersist ==
    /\ store \in Tables
    /\ now = 1
    /\ temp_views = {}
    /\ session_state = NoSessions
    /\ notice = [s \in Sessions |-> "none"]
    /\ source_df \in ChangeSets
    /\ edits = 0
    /\ call = [op |-> "save_changes", target |-> store, done |-> FALSE]

\* save_changes(full_table, source_df, primary_keys, columns, conn)
Persist ==
    /\ call.op = "save_changes"
    /\ ~call.done
    /\ \E fault \in Faults :
          LET out == save_changes(store, temp_views, source_df, now, fault)
          IN  /\ store' = out.store
              /\ temp_views' = out.temp_views
              /\ notice' = [notice EXCEPT !["A"] = out.notice]
    /\ call' = [call EXCEPT !.done = TRUE]
    /\ UNCHANGED <<now, session_state, source_df, edits>>

NextPersist == Persist

SpecPersist == InitPersist /\ [][NextPersist]_vars

\* ------------------------------------------- format_value taken alone
Chars == {"a", Quote}

Texts == UNION {[1..n -> Chars] : n \in 0..MaxTextLen}

\* A scalar of a column and the dtype of the column.
ScalarInputs ==
    {[value |-> NullV, dtype |-> d] : d \in {"object", "float64", "float32"}}
    \cup {[value |-> BoolV(b), dtype |-> "bool"] : b \in BOOLEAN}
    \cup {[value |-> IntV(n), dtype |-> d] : n \in 0..MaxInt, d \in {"int64", "int32"}}
    \cup {[value |-> FloatV(i, f), dtype |-> d] :
            i \in 0..MaxInt, f \in {0, 5}, d \in {"float64", "float32"}}
    \cup {[value |-> TextV(x), dtype |-> "object"] : x \in Texts}

InitFormat ==
    /\ store = {}
    /\ now = 1
    /\ temp_views = {}
    /\ session_state = NoSessions
    /\ notice = [s \in Sessions |-> "none"]
    /\ source_df = <<>>
    /\ edits = 0
    /\ \E x \in ScalarInputs :
          call = [op |-> "format_value", value |-> x.value, dtype |-> x.dtype,
                  done |-> FALSE, literal |-> <<>>]

Format ==
    /\ call.op = "format_value"
    /\ ~call.done
    /\ call' = [call EXCEPT !.done = TRUE,
                            !.literal = format_value(call.value, call.dtype)]
    /\ UNCHANGED <<store, now, temp_views, session_state, notice, source_df, edits>>

NextFormat == Format

SpecFormat == InitFormat /\ [][NextFormat]_vars

\* ---------------------------------- read_table's timestamp conversion alone
\* Epoch numbers are written in units of 10^6: 1700 is 1700000000 and
\* 1700000 is 1700000000000.  A timestamp is written in units of 10^6 ms.
MsThreshold == 1000000

EpochValues == {1700, 999999, MsThreshold, 1700000}

TimestampColumns == {"CreatedAt", "UpdatedAt"}

EpochFrames ==
    UNION {[1..n -> [TimestampColumns -> EpochValues]] : n \in 0..MaxFrame}

Column(df, col) == [i \in 1..Len(df) |-> df[i][col]]

\* df[col].max(), for a column that is not empty
RECURSIVE MaxVal(_)
MaxVal(column) ==
    IF Len(column) = 1 THEN column[1]
    ELSE LET m == MaxVal(Tail(column))
         IN  IF column[1] >= m THEN column[1] ELSE m

\* A unit that ignores the column.
UnitAlwaysSeconds(column) == "s"

\* Lines 77-78; the max of an empty column is NaN, and NaN >= 1e12 is false
Unit(column) ==
    IF Len(column) > 0 /\ MaxVal(column) >= MsThreshold THEN "ms" ELSE "s"

\* pd.to_datetime(value, unit=unit)
ToDatetime(value, unit) == IF unit = "ms" THEN value ELSE value * 1000

\* Lines 73-79, for a frame whose column dtypes are given
ConvertTimestamps(df, dtypes) ==
    [i \in 1..Len(df) |->
        [col \in TimestampColumns |->
            IF dtypes[col] = "datetime64" THEN df[i][col]
            ELSE ToDatetime(df[i][col], Unit(Column(df, col)))]]

InitRead ==
    /\ store = {}
    /\ now = 1
    /\ temp_views = {}
    /\ session_state = NoSessions
    /\ notice = [s \in Sessions |-> "none"]
    /\ source_df = <<>>
    /\ edits = 0
    /\ \E df \in EpochFrames :
       \E dtypes \in [TimestampColumns -> {"int64", "datetime64"}] :
          call = [op |-> "read_table", df |-> df, dtypes |-> dtypes,
                  done |-> FALSE, result |-> <<>>]

Read ==
    /\ call.op = "read_table"
    /\ ~call.done
    /\ call' = [call EXCEPT !.done = TRUE,
                            !.result = ConvertTimestamps(call.df, call.dtypes)]
    /\ UNCHANGED <<store, now, temp_views, session_state, notice, source_df, edits>>

NextRead == Read

SpecRead == InitRead /\ [][NextRead]_vars

\* ------------------------------------------------------------------ claims
RowsOf(df) == {df[i] : i \in 1..Len(df)}

WithKey(rows, k) == {r \in rows : r.id = k}

PersistDone == call.op = "save_changes" /\ call.done /\ notice["A"] = "saved"

\* C2: a successful save_changes on a table T and tagged change rows C with
\* distinct keys removes the rows of T that a change row tagged for deletion
\* matches, gives the rows of T that an upsert row matches the name of that
\* row, inserts the upsert rows that match nothing, ignores a deletion that
\* matches nothing, and leaves every other row of T as it was.
C2_MergeEffect ==
    PersistDone =>
        LET T == call.target
            C == RowsOf(source_df)
        IN  /\ \A t \in T :
                 IF WithKey(C, t.id) = {} THEN t \in store
                 ELSE \A c \in WithKey(C, t.id) :
                        IF c.is_delete THEN WithKey(store, t.id) = {}
                        ELSE /\ Cardinality(WithKey(store, t.id)) = 1
                             /\ \A u \in WithKey(store, t.id) : u.name = c.name
            /\ \A c \in C :
                 WithKey(T, c.id) = {} =>
                    IF c.is_delete THEN WithKey(store, c.id) = {}
                    ELSE /\ Cardinality(WithKey(store, c.id)) = 1
                         /\ \A u \in WithKey(store, c.id) : u.name = c.name
            /\ \A u \in store : WithKey(T, u.id) # {} \/ WithKey(C, u.id) # {}

\* A save that deleted one matched row and renamed another.
C2_Witness ==
    /\ PersistDone
    /\ \E t1, t2 \in call.target :
       \E c1, c2 \in RowsOf(source_df) :
          /\ c1.id = t1.id /\ c1.is_delete /\ WithKey(store, t1.id) = {}
          /\ c2.id = t2.id /\ ~c2.is_delete /\ c2.name # t2.name
          /\ c2.name = TextV(<<"O", Quote, "B">>)
          /\ \E u \in store : u.id = t2.id /\ u.name = c2.name

\* The step is a run of session s that clicked Save (line 213 resets the flag).
SaveStep(s) == session_state[s].changes /\ ~session_state'[s].changes

\* ... and save_changes reported success.
Saved(s) == SaveStep(s) /\ notice'[s] = "saved"

\* The step is a run of session s in which save_changes reported an error.
FailStep(s) == notice[s] # "error" /\ notice'[s] = "error"

Upserts(df) == SelectSeq(df, LAMBDA r : ~r.is_delete)

Deletions(df) == SelectSeq(df, LAMBDA r : r.is_delete)

\* The rows that have been in the table, unchanged, since before any session
\* loaded it: they are in the snapshot of every session.
InSnapshot == store \cap InitStore

\* C1: a Save deletes every row of the loaded snapshot whose key is not in
\* the edited set: the row is in the delete partition, with its non-key
\* fields null, and is gone from the table after the save.
C1_DeletedRowsAreRemoved ==
    [][\A s \in Sessions :
        Saved(s) =>
            \A r \in InSnapshot :
                <<r.id>> \notin KeyTuples(session_state'[s].data) =>
                    /\ \E i \in 1..Len(source_df') :
                          /\ source_df'[i].id = r.id
                          /\ source_df'[i].is_delete
                          /\ source_df'[i].name = NullV
                    /\ WithKey(store', r.id) = {}]_vars

\* C3: a save that fails leaves the table and the session's edited rows as
\* they were and stays pending: the unsaved-changes flag is still set.
C3_FailedSaveStaysPending ==
    [][\A s \in Sessions :
        FailStep(s) =>
            /\ store' = store
            /\ session_state'[s].data = session_state[s].data
            /\ session_state'[s].changes]_vars

\* C4: the change set built on Save has no key in both partitions, its keys
\* are the keys of the snapshot and of the edited set, and its delete rows
\* carry only the key.  (Stated for the snapshot rows of InSnapshot.)
C4_PartitionsCoverKeys ==
    [][\A s \in Sessions :
        SaveStep(s) =>
            LET up == KeyTuples(Upserts(source_df'))
                del == KeyTuples(Deletions(source_df'))
                E == session_state'[s].data
            IN  /\ up \cap del = {}
                /\ {<<r.id>> : r \in InSnapshot} \subseteq up \cup del
                /\ KeyTuples(E) \subseteq up \cup del
                /\ \A i \in 1..Len(source_df') :
                      source_df'[i].is_delete =>
                        /\ source_df'[i].name = NullV
                        /\ source_df'[i].CreatedAt = NaT
                        /\ source_df'[i].UpdatedAt = NaT]_vars

\* C5: the timestamps a save stores are the server's: a row the save updates
\* gets UpdatedAt = the current time and keeps its CreatedAt, a row it
\* inserts gets the current time in both, and no other row changes.
C5_TimestampsFromServerClock ==
    [][\A s \in Sessions :
        Saved(s) =>
            \A u \in store' :
                IF WithKey(RowsOf(source_df'), u.id) = {} THEN u \in store
                ELSE IF WithKey(store, u.id) # {}
                THEN /\ u.UpdatedAt = now
                     /\ \A t \in WithKey(store, u.id) : u.CreatedAt = t.CreatedAt
                ELSE u.CreatedAt = now /\ u.UpdatedAt = now]_vars

\* A session has saved a row it added (held without timestamps) and a row it
\* loaded earlier (held with the timestamps of the load).
C5_Witness ==
    \E s \in Sessions :
        /\ notice[s] = "saved"
        /\ \E h1, h2 \in RowsOf(session_state[s].data) :
           \E u1, u2 \in store :
              /\ h1.id = u1.id /\ h1.CreatedAt = NaT
              /\ u1.CreatedAt = u1.UpdatedAt /\ u1.CreatedAt >= 1
              /\ h2.id = u2.id /\ h2.UpdatedAt # NaT
              /\ u2.CreatedAt = h2.CreatedAt /\ u2.UpdatedAt > h2.UpdatedAt

\* C6: after a successful save the session's snapshot is a fresh load: the
\* rows the session holds are the rows of the table.
C6_SnapshotReloadedAfterSave ==
    [][\A s \in Sessions :
        Saved(s) => RowsOf(session_state'[s].data) = store']_vars

\* C9: the temporary view of a save has a name that no view on the shared
\* connection has.
C9_TempViewNameUnique ==
    [][\A s \in Sessions :
        SaveStep(s) => TempViewName(TableName, now) \notin temp_views]_vars

\* C10: a save writes the rows its own session holds: the upsert partition
\* is the held frame verbatim, and after a successful save every held row is
\* in the table with the held name, whatever another session wrote there.
C10_SaveWritesOwnRows ==
    [][\A s \in Sessions :
        Saved(s) =>
            /\ Upserts(source_df') = Assign(session_state'[s].data, FALSE)
            /\ \A h \in RowsOf(session_state'[s].data) :
                  /\ Cardinality(WithKey(store', h.id)) = 1
                  /\ \A u \in WithKey(store', h.id) : u.name = h.name]_vars

\* B saved a new name for a row; A, which holds the row as it first was and
\* has added another row, saved after B: the table has A's old name again.
C10_Witness ==
    /\ notice["A"] = "saved"
    /\ notice["B"] = "saved"
    /\ Len(session_state["A"].data) >= 2
    /\ \E r \in InitStore :
          /\ r \in RowsOf(session_state["A"].data)
          /\ \E b \in RowsOf(session_state["B"].data) :
                b.id = r.id /\ b.name # r.name
          /\ \E u \in store : u.id = r.id /\ u.name = r.name /\ u.UpdatedAt > 0

FormatDone == call.op = "format_value" /\ call.done

NullLiteral == <<"N", "U", "L", "L">>

\* C7: format_value returns NULL for a null, TRUE or FALSE for a boolean, the
\* unquoted decimal text for an integer or a float, and for a text the text
\* in single quotes with every quote doubled, which un-doubles to the text.
C7_FormatValueLiterals ==
    FormatDone =>
        LET value == call.value
            lit == call.literal
        IN  CASE value.t = "null" -> lit = NullLiteral
              [] value.t = "bool" ->
                    lit = IF value.v THEN <<"T", "R", "U", "E">>
                          ELSE <<"F", "A", "L", "S", "E">>
              [] value.t \in {"int", "float"} ->
                    /\ lit = Str(value)
                    /\ \A i \in 1..Len(lit) : lit[i] # Quote
              [] value.t = "text" ->
                    /\ Len(lit) >= 2
                    /\ lit[1] = Quote /\ lit[Len(lit)] = Quote
                    /\ Undouble(SubSeq(lit, 2, Len(lit) - 1)) = value.v

ReadDone == call.op = "read_table" /\ call.done

EpochColumns == {col \in TimestampColumns : call.dtypes[col] # "datetime64"}

\* C8 as claimed: every epoch number is converted by its own magnitude,
\* milliseconds from 10^12 on and seconds below.
C8_UnitPerValue ==
    ReadDone =>
        \A col \in EpochColumns : \A i \in 1..Len(call.df) :
            call.result[i][col] =
                IF call.df[i][col] >= MsThreshold THEN call.df[i][col]
                ELSE call.df[i][col] * 1000

\* C8, amended: the unit is one per column: if some number of the column is
\* 10^12 or more, every number of the column is read as milliseconds, and
\* otherwise every number is read as seconds.
C8_UnitPerColumn ==
    ReadDone =>
        \A col \in EpochColumns :
            IF \E i \in 1..Len(call.df) : call.df[i][col] >= MsThreshold
            THEN \A i \in 1..Len(call.df) : call.result[i][col] = call.df[i][col]
            ELSE \A i \in 1..Len(call.df) :
                    call.result[i][col] = call.df[i][col] * 1000

\* 1700000000 in a column of seconds and 1700000000000 in a column of
\* milliseconds come out as the same timestamp, and a 1700000000 that shares
\* its column with a 1700000000000 comes out as 1700000000 ms.
C8_Witness ==
    /\ ReadDone
    /\ EpochColumns = TimestampColumns
    /\ \E i, j \in 1..Len(call.df) :
          /\ call.df[i]["CreatedAt"] = 1700
          /\ call.df[j]["CreatedAt"] = 1700
          /\ call.df[i]["UpdatedAt"] = 1700000
          /\ call.df[j]["UpdatedAt"] = 1700
          /\ call.result[i]["CreatedAt"] = call.result[i]["UpdatedAt"]
          /\ call.result[j]["UpdatedAt"] = 1700

====
